---- MODULE Spec2Model ----
(***************************************************************************)
(* Image_Manipulator.py: the fourteen image filters.  Every filter copies  *)
(* its argument, loops over pixel coordinates, and stores one colour per   *)
(* iteration into the copy with set_color.  One call of one filter is      *)
(* modelled: Call runs the code before the loop, one action per filter is  *)
(* one iteration of that filter's loop, Return is the return statement.    *)
(*                                                                         *)
(* Images are references into a heap (a sequence of grids), so that a      *)
(* filter writing through an alias of its argument is expressible.         *)
(***************************************************************************)
EXTENDS Integers, Sequences, FiniteSets, TLC

\* heap        the grids that exist, indexed by reference
\* image       the reference the filter is called with
\* new_image   the reference the filter stores into and returns (0: none yet)
\* f, threshold  the filter called and its threshold argument
\* pc          "idle" before the call, "loop" inside it, "done" after it
\* work        per worker, the coordinates its loop has still to visit
\* reads       the coordinates read so far (by iteration or get_color)
\* writes      the coordinates passed to set_color so far
\* outcome     "none", then "grid" (returned) or "IndexError" (raised)
\* before      the argument grid's pixels as they were when the call began
VARIABLES heap, image, new_image, f, threshold, pc, work, reads, writes,
          outcome, before

vars == <<heap, image, new_image, f, threshold, pc, work, reads, writes,
          outcome, before>>

(* ------------------------------ bounds -------------------------------- *)

\* Largest width and height of an input grid.
MaxW == 4
MaxH == 4
\* Number of workers the rows are dealt to in SpecPar.
NumWorkers == 2

(* --------------------------- input domain ----------------------------- *)

\* Colours of the patterned input grids: black, white and two colours whose
\* channels differ (and straddle 64, 128 and 192).
Palette == << <<0, 0, 0>>, <<255, 255, 255>>, <<200, 100, 50>>, <<30, 60, 240>> >>

Strides == 0 .. Len(Palette) - 1

Coords(w, h) == (0 .. w - 1) \X (0 .. h - 1)

\* A grid: its dimensions and one colour per coordinate.
Grid(w, h, px) == [width |-> w, height |-> h, px |-> px]

\* The w x h grid whose pixels run through Palette with stride a along x and
\* b along y, starting at c.
PatternGrid(w, h, a, b, c) ==
    Grid(w, h, [p \in Coords(w, h) |->
                  Palette[1 + ((c + a * p[1] + b * p[2]) % Len(Palette))]])

\* The patterned grids of every size 0..MaxW x 0..MaxH.
PatternGrids ==
    { PatternGrid(w, h, a, b, c) :
        <<w, h, a, b, c>> \in (0 .. MaxW) \X (0 .. MaxH) \X Strides \X Strides \X Strides }

\* The patterned grids whose rows each start one colour further along
\* Palette than the row above.
SteppedGrids ==
    { PatternGrid(w, h, a, 1, 0) :
        <<w, h, a>> \in (0 .. MaxW) \X (0 .. MaxH) \X Strides }

\* One-pixel grids of every gray level, and of every gray level with one more
\* of red: together their weighted luminance takes every value 0..255.
GrayGrids ==
    { Grid(1, 1, [p \in Coords(1, 1) |-> <<v, v, v>>]) : v \in 0 .. 255 }
    \cup
    { Grid(1, 1, [p \in Coords(1, 1) |-> <<v + 1, v, v>>]) : v \in 0 .. 254 }

InputGrids == PatternGrids \cup GrayGrids

\* Arguments given for the threshold parameter: below, at and above the
\* documented range 0..256, and inside it.
ThresholdValues == {-1, 0, 128, 256, 257}

PointFilters == {"grayscale", "negative", "solarize", "black_and_white",
                 "black_and_white_and_gray", "weighted_grayscale",
                 "extreme_contrast", "sepia_tint", "posterize"}
NeighbourhoodFilters == {"detect_edges", "detect_edges_better", "blur_better"}
GeometricFilters == {"flip_vertical", "flip_horizontal"}
Filters == PointFilters \cup NeighbourhoodFilters \cup GeometricFilters

Thresholds(ff) ==
    IF ff \in {"solarize", "detect_edges", "detect_edges_better"}
    THEN ThresholdValues ELSE {0}

(* ------------------------- the Cimpl calls used ----------------------- *)

get_width(g) == g.width
get_height(g) == g.height
InBounds(g, p) == p \in DOMAIN g.px
get_color(g, x, y) == g.px[<<x, y>>]
set_color(g, x, y, col) == [g EXCEPT !.px[<<x, y>>] = col]
\* Arguments are already converted to int by the operators that compute them.
create_color(r, g, b) == <<r, g, b>>

\* copy through an alias: no new grid, the same reference comes back.
copy_alias(h, ref) == [heap |-> h, ref |-> ref]
\* copy(image): a new grid with the same pixels, and the reference to it.
copy(h, ref) == [heap |-> Append(h, h[ref]), ref |-> Len(h) + 1]

\* range(lo, hi) as the sequence lo, lo+1, ..., hi-1.
py_range(lo, hi) == [i \in 1 .. (IF hi > lo THEN hi - lo ELSE 0) |-> lo + i - 1]

RECURSIVE Flatten(_)
Flatten(ss) == IF ss = <<>> THEN <<>> ELSE Head(ss) \o Flatten(Tail(ss))

\* The loop runs over rows ys and, inside each, over columns xs.
RowMajor(xs, ys) ==
    Flatten([j \in DOMAIN ys |-> [i \in DOMAIN xs |-> <<xs[i], ys[j]>>]])

\* for x, y, (r, g, b) in image: every coordinate, row by row.
image_iter(g) == RowMajor(py_range(0, get_width(g)), py_range(0, get_height(g)))

\* range(1, dim - 1) with the loop starting at index 0.
interior_range_from0(dim) == py_range(0, dim - 1)
\* range(1, dim - 1) with dim - 1 computed in unsigned 3-bit arithmetic.
interior_range_wrap(dim) == py_range(1, (dim - 1) % 8)
\* range(1, dim - 1) with the upper bound off by one.
interior_range_incl(dim) == py_range(1, dim)
\* range(1, get_height(image) - 1) and range(1, get_width(image) - 1).
interior_range(dim) == py_range(1, dim - 1)

\* for y in range(1, height - 1): for x in range(1, width - 1).
interior(g) == RowMajor(interior_range(get_width(g)), interior_range(get_height(g)))

(* ----------------------- per-pixel colour arithmetic ------------------ *)

Red(c) == c[1]
Green(c) == c[2]
Blue(c) == c[3]

\* (r + g + b) // 3
brightness(c) == (Red(c) + Green(c) + Blue(c)) \div 3

\* grayscale with only the red and blue components replaced.
grayscale_pixel_keep_green(c) ==
    create_color(brightness(c), Green(c), brightness(c))
\* Loop body of grayscale: the brightness in all three components.
grayscale_pixel(c) == create_color(brightness(c), brightness(c), brightness(c))

\* negative with the red component inverted into all three.
negative_pixel_red_only(c) == create_color(255 - Red(c), 255 - Red(c), 255 - Red(c))
\* Loop body of negative.
negative_pixel(c) == create_color(255 - Red(c), 255 - Green(c), 255 - Blue(c))

\* solarize comparing with <= instead of <.
solarize_component_le(v, th) == IF v <= th THEN 255 - v ELSE v
\* if component < threshold: component = 255 - component
solarize_component(v, th) == IF v < th THEN 255 - v ELSE v
solarize_pixel(c, th) ==
    create_color(solarize_component(Red(c), th), solarize_component(Green(c), th),
                 solarize_component(Blue(c), th))

black_and_white_pixel(c) ==
    IF brightness(c) < 128 THEN create_color(0, 0, 0)
    ELSE create_color(255, 255, 255)

black_and_white_and_gray_pixel(c) ==
    IF brightness(c) < 85 THEN create_color(0, 0, 0)
    ELSE IF brightness(c) < 171 THEN create_color(128, 128, 128)
    ELSE create_color(255, 255, 255)

\* Gray levels v for which the double-precision sum
\* v * 0.299 + v * 0.587 + v * 0.114 lies just below v.
GrayRoundsDown ==
    {1, 2, 4, 8, 11, 13, 16, 22, 26, 27, 32, 39, 44, 51, 52, 54, 57, 59, 61, 64,
     78, 81, 88, 91, 95, 101, 102, 104, 108, 114, 115, 118, 122, 127, 128, 143,
     149, 156, 157, 162, 169, 175, 176, 182, 183, 190, 195, 202, 203, 204, 208,
     209, 216, 223, 225, 228, 230, 235, 236, 239, 241, 244, 249, 251, 254}

\* int(r * 0.299 + g * 0.587 + b * 0.114) on the colours of InputGrids: the
\* exact quotient, except where the double-precision sum falls short of it.
weighted_brightness(c) ==
    ((299 * Red(c) + 587 * Green(c) + 114 * Blue(c)) \div 1000)
    - (IF Red(c) = Green(c) /\ Green(c) = Blue(c) /\ Red(c) \in GrayRoundsDown
       THEN 1 ELSE 0)

weighted_grayscale_pixel(c) ==
    create_color(weighted_brightness(c), weighted_brightness(c), weighted_brightness(c))

extreme_contrast_component(v) == IF v < 128 THEN 0 ELSE 255
extreme_contrast_pixel(c) ==
    create_color(extreme_contrast_component(Red(c)), extreme_contrast_component(Green(c)),
                 extreme_contrast_component(Blue(c)))

\* int(v * (num / 100)) where the double-precision product is exact enough.
scale(v, num) == (v * num) \div 100
\* int(v * 1.15): the double-precision product falls short at four values.
times_1_15(v) == scale(v, 115) - (IF v \in {100, 180, 200, 220} THEN 1 ELSE 0)

\* The tint without its last branch: every r from 63 up is scaled by 1.15.
sepia_red_two_branches(r) == IF r < 63 THEN scale(r, 110) ELSE times_1_15(r)
\* int(r) after the tint's r = r * 1.1 / r * 1.15 / r * 1.08.
sepia_red(r) ==
    IF r < 63 THEN scale(r, 110)
    ELSE IF r < 191 THEN times_1_15(r)
    ELSE scale(r, 108)
\* int(b) after the tint's b = b * 0.9 / b * 0.85 / b * 0.93.
sepia_blue(r, b) ==
    IF r < 63 THEN scale(b, 90)
    ELSE IF r < 191 THEN scale(b, 85)
    ELSE scale(b, 93)
\* Loop body of sepia_tint, on a pixel of the weighted-grayscale copy.
sepia_tint_pixel(c) == create_color(sepia_red(Red(c)), Green(c), sepia_blue(Red(c), Blue(c)))

_adjust_component(amount) ==
    IF amount < 64 THEN 31
    ELSE IF amount < 128 THEN 95
    ELSE IF amount < 192 THEN 159
    ELSE 223
posterize_pixel(c) ==
    create_color(_adjust_component(Red(c)), _adjust_component(Green(c)),
                 _adjust_component(Blue(c)))

\* The colour a point filter stores for an input colour c.
PointPixel(ff, th, c) ==
    CASE ff = "grayscale" -> grayscale_pixel(c)
      [] ff = "negative" -> negative_pixel(c)
      [] ff = "solarize" -> solarize_pixel(c, th)
      [] ff = "black_and_white" -> black_and_white_pixel(c)
      [] ff = "black_and_white_and_gray" -> black_and_white_and_gray_pixel(c)
      [] ff = "weighted_grayscale" -> weighted_grayscale_pixel(c)
      [] ff = "extreme_contrast" -> extreme_contrast_pixel(c)
      [] ff = "sepia_tint" -> sepia_tint_pixel(c)
      [] ff = "posterize" -> posterize_pixel(c)

(* ----------------------------- loop bodies ---------------------------- *)

\* What one loop iteration did: whether every coordinate it passed was in
\* the grid, the heap after it, and the coordinates it read and stored at.
Done(h, rd, wr) == [ok |-> TRUE, heap |-> h, reads |-> rd, writes |-> wr]
Failed(h, rd, wr) == [ok |-> FALSE, heap |-> h, reads |-> rd, writes |-> wr]

\* One iteration of a loop that reads coordinates rd of grid src and stores
\* col at coordinate at of grid dst (col is only evaluated when rd is in src).
Iteration(h, src, dst, rd, at, col) ==
    IF \E q \in rd : ~InBounds(h[src], q) THEN Failed(h, rd, {})
    ELSE IF ~InBounds(h[dst], at) THEN Failed(h, rd, {at})
    ELSE Done([h EXCEPT ![dst] = set_color(@, at[1], at[2], col)], rd, {at})

\* The point filters: for x, y, (r, g, b) in image: ... set_color(new_image, x, y, ...)
point_body(ff, th, h, src, dst, p) ==
    Iteration(h, src, dst, {p}, p, PointPixel(ff, th, get_color(h[src], p[1], p[2])))

detect_edges_body(h, src, dst, x, y, th) ==
    LET g == h[src]
        contrast_check == brightness(get_color(g, x, y)) - brightness(get_color(g, x, y + 1))
    IN Iteration(h, src, dst, {<<x, y>>, <<x, y + 1>>}, <<x, y>>,
                 IF contrast_check < th THEN create_color(255, 255, 255)
                 ELSE create_color(0, 0, 0))

detect_edges_better_body(h, src, dst, x, y, th) ==
    LET g == h[src]
        contrast_check_below ==
            brightness(get_color(g, x, y)) - brightness(get_color(g, x, y + 1))
        contrast_check_right ==
            brightness(get_color(g, x, y)) - brightness(get_color(g, x + 1, y))
    IN Iteration(h, src, dst, {<<x, y>>, <<x, y + 1>>, <<x + 1, y>>}, <<x, y>>,
                 IF contrast_check_below > th \/ contrast_check_right > th
                 THEN create_color(0, 0, 0)
                 ELSE create_color(255, 255, 255))

\* The pixel @ (x, y) and its eight neighbours.
Window(x, y) == {<<x + dx, y + dy>> : <<dx, dy>> \in {-1, 0, 1} \X {-1, 0, 1}}

RECURSIVE SumOver(_, _, _)
\* Sum of component ch of grid g over the coordinates ps.
SumOver(g, ps, ch) ==
    IF ps = {} THEN 0
    ELSE LET q == CHOOSE q \in ps : TRUE
         IN get_color(g, q[1], q[2])[ch] + SumOver(g, ps \ {q}, ch)

blur_better_body(h, src, dst, x, y) ==
    LET g == h[src]
        new_red == SumOver(g, Window(x, y), 1) \div 9
        new_green == SumOver(g, Window(x, y), 2) \div 9
        new_blue == SumOver(g, Window(x, y), 3) \div 9
    IN Iteration(h, src, dst, Window(x, y), <<x, y>>,
                 create_color(new_red, new_green, new_blue))

\* The mirrored index, one too far.
mirror_off_by_one(dim, i) == dim - i
\* get_width(image) - (x + 1) and get_height(image) - (y + 1).
mirror(dim, i) == dim - (i + 1)

flip_vertical_body(h, src, dst, x, y) ==
    Iteration(h, src, dst, {<<x, y>>}, <<mirror(get_width(h[src]), x), y>>,
              get_color(h[src], x, y))

flip_horizontal_body(h, src, dst, x, y) ==
    Iteration(h, src, dst, {<<x, y>>}, <<x, mirror(get_height(h[src]), y)>>,
              get_color(h[src], x, y))

\* One iteration of filter ff's loop at coordinate p.
Body(ff, th, h, src, dst, p) ==
    CASE ff \in PointFilters -> point_body(ff, th, h, src, dst, p)
      [] ff = "detect_edges" -> detect_edges_body(h, src, dst, p[1], p[2], th)
      [] ff = "detect_edges_better" -> detect_edges_better_body(h, src, dst, p[1], p[2], th)
      [] ff = "blur_better" -> blur_better_body(h, src, dst, p[1], p[2])
      [] ff = "flip_vertical" -> flip_vertical_body(h, src, dst, p[1], p[2])
      [] ff = "flip_horizontal" -> flip_horizontal_body(h, src, dst, p[1], p[2])

RECURSIVE RunLoop(_, _, _, _, _, _)
\* The whole loop of filter ff, in the order of coords, up to the first
\* iteration that fails.
RunLoop(ff, th, h, src, dst, coords) ==
    IF coords = <<>> THEN h
    ELSE LET r == Body(ff, th, h, src, dst, Head(coords))
         IN IF r.ok THEN RunLoop(ff, th, r.heap, src, dst, Tail(coords)) ELSE r.heap

\* weighted_grayscale(image), run to its return.
weighted_grayscale_call(h, img) ==
    LET c == copy(h, img)
    IN [heap |-> RunLoop("weighted_grayscale", 0, c.heap, img, c.ref, image_iter(c.heap[img])),
        ref |-> c.ref]

\* The statements before the loop: new_image = copy(image), and for
\* sepia_tint new_image = copy(weighted_grayscale(image)).
Prologue(ff, h, img) ==
    IF ff = "sepia_tint"
    THEN LET wg == weighted_grayscale_call(h, img) IN copy(wg.heap, wg.ref)
    ELSE copy(h, img)

\* The grid the loop reads: image, and for sepia_tint new_image itself.
LoopSource(ff, img, new) == IF ff = "sepia_tint" THEN new ELSE img

\* The coordinates the loop visits, in the order of the code.
LoopCoords(ff, h, img, new) ==
    IF ff \in PointFilters THEN image_iter(h[LoopSource(ff, img, new)])
    ELSE interior(h[img])

\* The grid filter ff returns for grid g.
FilterResult(ff, th, g) ==
    LET s == Prologue(ff, <<g>>, 1)
        src == LoopSource(ff, 1, s.ref)
    IN RunLoop(ff, th, s.heap, src, s.ref, LoopCoords(ff, s.heap, 1, s.ref))[s.ref]

(* ---------------------------- the state machine ----------------------- *)

\* The caller holds grid g; no filter has been called yet.
Start(g) ==
    /\ heap = <<g>>
    /\ before = g
    /\ image = 1
    /\ new_image = 0
    /\ f = "none"
    /\ threshold = 0
    /\ pc = "idle"
    /\ work = <<>>
    /\ reads = {}
    /\ writes = {}
    /\ outcome = "none"

Init == \E g \in InputGrids : Start(g)

InitPar == \E g \in SteppedGrids : Start(g)

\* The loop as the code runs it: one sequence of iterations.
Sequential(coords) == <<coords>>

\* The rows dealt round-robin to NumWorkers workers, each keeping the
\* code's order on its own rows.
ByRows(coords) ==
    [k \in 1 .. NumWorkers |-> SelectSeq(coords, LAMBDA p : p[2] % NumWorkers = k - 1)]

\* The call of filter ff up to its loop; the loop's coordinates are run in
\* the code's order, or (par) dealt to the workers.
Enter(ff, th, par) ==
    LET s == Prologue(ff, heap, image)
        coords == LoopCoords(ff, s.heap, image, s.ref)
    IN /\ heap' = s.heap
       /\ new_image' = s.ref
       /\ f' = ff
       /\ threshold' = th
       /\ work' = (IF par THEN ByRows(coords) ELSE Sequential(coords))
       /\ pc' = "loop"
       /\ UNCHANGED <<image, reads, writes, outcome, before>>

\* A filter is called with the grid (and a threshold, where it takes one).
Call ==
    /\ pc = "idle"
    /\ \E ff \in Filters : \E th \in Thresholds(ff) : Enter(ff, th, FALSE)

\* The same call with the loop's rows dealt to the workers.
CallPar ==
    /\ pc = "idle"
    /\ \E ff \in Filters : \E th \in Thresholds(ff) : Enter(ff, th, TRUE)

\* One iteration of filter ff's loop: the next coordinate of some worker.
Iterate(ff) ==
    /\ pc = "loop"
    /\ f = ff
    /\ \E k \in DOMAIN work :
         /\ work[k] # <<>>
         /\ LET r == Body(f, threshold, heap, LoopSource(f, image, new_image),
                          new_image, Head(work[k]))
            IN /\ heap' = r.heap
               /\ reads' = reads \cup r.reads
               /\ writes' = writes \cup r.writes
               /\ IF r.ok
                  THEN /\ work' = [work EXCEPT ![k] = Tail(@)]
                       /\ UNCHANGED <<pc, outcome>>
                  ELSE /\ pc' = "done"
                       /\ outcome' = "IndexError"
                       /\ UNCHANGED work
    /\ UNCHANGED <<image, new_image, f, threshold, before>>

grayscale == Iterate("grayscale")
negative == Iterate("negative")
solarize == Iterate("solarize")
black_and_white == Iterate("black_and_white")
black_and_white_and_gray == Iterate("black_and_white_and_gray")
weighted_grayscale == Iterate("weighted_grayscale")
extreme_contrast == Iterate("extreme_contrast")
sepia_tint == Iterate("sepia_tint")
posterize == Iterate("posterize")
detect_edges == Iterate("detect_edges")
detect_edges_better == Iterate("detect_edges_better")
blur_better == Iterate("blur_better")
flip_vertical == Iterate("flip_vertical")
flip_horizontal == Iterate("flip_horizontal")

\* return new_image, once the loop has run out.
Return ==
    /\ pc = "loop"
    /\ \A k \in DOMAIN work : work[k] = <<>>
    /\ pc' = "done"
    /\ outcome' = "grid"
    /\ UNCHANGED <<heap, image, new_image, f, threshold, work, reads, writes, before>>

Loops ==
    \/ grayscale \/ negative \/ solarize \/ black_and_white
    \/ black_and_white_and_gray \/ weighted_grayscale \/ extreme_contrast
    \/ sepia_tint \/ posterize \/ detect_edges \/ detect_edges_better
    \/ blur_better \/ flip_vertical \/ flip_horizontal

Next == Call \/ Loops \/ Return

Spec == Init /\ [][Next]_vars

NextPar == CallPar \/ Loops \/ Return

SpecPar == InitPar /\ [][NextPar]_vars

(* ------------------------------- claims ------------------------------- *)

\* The grid the running (or returned) call writes.
Out == heap[new_image]

Returned == pc = "done" /\ outcome = "grid"

BorderFilters == NeighbourhoodFilters \cup GeometricFilters

\* p is not on the outermost one-pixel frame of grid g.
IsInterior(g, p) ==
    /\ 1 <= p[1] /\ p[1] < get_width(g) - 1
    /\ 1 <= p[2] /\ p[2] < get_height(g) - 1

ZeroSized(g) == get_width(g) = 0 \/ get_height(g) = 0

\* C1: during and after a call of any filter the argument grid holds the
\* pixels it held before the call; the grid written is another grid.
C1_InputImmutable ==
    /\ heap[image] = before
    /\ pc # "idle" => new_image # image

\* sepia_tint has returned a grid that differs from its argument.
C1_Witness ==
    /\ Returned /\ f = "sepia_tint"
    /\ get_width(before) >= 2
    /\ Out # before
    /\ heap[image] = before

C4_ZeroSizeRejected ==
    (f \in BorderFilters /\ ZeroSized(before) /\ pc \in {"loop", "done"}) =>
        /\ pc = "done"
        /\ outcome = "InvalidDimensions"

\* C4 amended: on a grid of width 0 or height 0 these filters run no loop
\* iteration, pass no coordinate to get_color or set_color, and return a
\* copy of the grid; no error is reported.
C4_ZeroSizeReturnsCopy ==
    (f \in BorderFilters /\ ZeroSized(before) /\ pc \in {"loop", "done"}) =>
        /\ reads = {} /\ writes = {}
        /\ Out = before
        /\ pc = "done" => outcome = "grid"

\* flip_horizontal has returned for a grid of width 0 and positive height.
C4_Witness ==
    /\ Returned /\ f = "flip_horizontal"
    /\ get_width(before) = 0 /\ get_height(before) > 0
    /\ Out = before

\* The grid weighted_grayscale returned inside sepia_tint.
GrayPass == heap[new_image - 1]

\* C5 as stated: the red value of the tint step exceeds 255 only for the
\* gray value 255.
C5_RedOverflowsOnlyAt255 ==
    (Returned /\ f = "sepia_tint") =>
        \A p \in DOMAIN Out.px :
            Red(Out.px[p]) > 255 => Red(GrayPass.px[p]) = 255

\* C5 amended: the red value the tint step stores exceeds 255 exactly for
\* the gray values 238..255, and is in 0..255 for the gray values 0..237.
C5_RedOverflowsFrom238 ==
    (Returned /\ f = "sepia_tint") =>
        \A p \in DOMAIN Out.px :
            /\ Red(GrayPass.px[p]) \in 0 .. 255
            /\ Red(Out.px[p]) >= 0
            /\ Red(Out.px[p]) > 255 <=> Red(GrayPass.px[p]) >= 238

\* The gray value 254 has been tinted to the red value 274.
C5_Witness ==
    /\ Returned /\ f = "sepia_tint"
    /\ \E p \in DOMAIN Out.px :
         Red(GrayPass.px[p]) = 254 /\ Red(Out.px[p]) = 274

\* C6: solarize with a threshold <= 0 returns the input's pixels, with a
\* threshold >= 256 the pixels negative returns, and never an error.
C6_SolarizeBoundary ==
    (pc = "done" /\ f = "solarize") =>
        /\ outcome = "grid"
        /\ threshold <= 0 => Out = before
        /\ threshold >= 256 => Out = FilterResult("negative", 0, before)

\* solarize with threshold 256 has returned an inverted grid.
C6_Witness ==
    /\ Returned /\ f = "solarize" /\ threshold = 256
    /\ get_width(before) >= 2
    /\ Out # before
    /\ Out = FilterResult("negative", 0, before)

\* C7: negative applied to the grid negative returned gives the original
\* grid, and every component of the grid in between is in 0..255.
C7_NegativeInvolution ==
    (Returned /\ f = "negative") =>
        /\ FilterResult("negative", 0, Out) = before
        /\ \A p \in DOMAIN Out.px : \A ch \in 1 .. 3 : Out.px[p][ch] \in 0 .. 255

\* negative has returned for a grid holding a colour that is not gray.
C7_Witness ==
    /\ Returned /\ f = "negative"
    /\ \E p \in DOMAIN before.px : Red(before.px[p]) # Green(before.px[p])
    /\ Out # before

\* C8: grayscale applied to the grid grayscale returned changes nothing;
\* each pixel of that grid has all components equal to (r + g + b) // 3 of
\* the input pixel.
C8_GrayscaleIdempotent ==
    (Returned /\ f = "grayscale") =>
        /\ FilterResult("grayscale", 0, Out) = Out
        /\ \A p \in DOMAIN Out.px :
             LET c == before.px[p]
                 avg == (c[1] + c[2] + c[3]) \div 3
             IN Out.px[p] = <<avg, avg, avg>>

\* grayscale has returned a grid that differs from a non-gray input.
C8_Witness ==
    /\ Returned /\ f = "grayscale"
    /\ get_height(before) >= 2
    /\ Out # before

\* C9: with the rows dealt to workers whose iterations interleave in any
\* order, every pixel of the output is either the one the loop started
\* with or the one the code's own order produces, and the grid returned is
\* the one the code's own order returns.
C9_OrderIndependent ==
    (pc \in {"loop", "done"} /\ outcome # "IndexError") =>
        LET final == FilterResult(f, threshold, before)
            first == Prologue(f, <<before>>, 1)
        IN /\ \A p \in DOMAIN Out.px :
                Out.px[p] \in {first.heap[first.ref].px[p], final.px[p]}
           /\ pc = "done" => Out = final

\* blur_better has stored the pixel at (1, 2) before the one at (1, 1),
\* against the order of the code, and both come out different.
C9_Witness ==
    /\ pc = "loop" /\ f = "blur_better"
    /\ <<1, 2>> \in writes /\ <<1, 1>> \notin writes
    /\ Out.px[<<1, 2>>] # before.px[<<1, 2>>]
    /\ FilterResult(f, threshold, before).px[<<1, 1>>] # before.px[<<1, 1>>]

\* C10: on a grid of width >= 1 and height >= 1 every coordinate the
\* neighbourhood and geometric filters pass to get_color and set_color is
\* inside the grid.
C10_AccessesInBounds ==
    (f \in BorderFilters /\ get_width(before) >= 1 /\ get_height(before) >= 1) =>
        /\ reads \cup writes \subseteq Coords(get_width(before), get_height(before))
        /\ outcome # "IndexError"

\* detect_edges_better has read its furthest neighbours: the read at x + 1
\* landed on the last column and the read at y + 1 on the last row.
C10_Witness ==
    /\ pc = "loop" /\ f = "detect_edges_better"
    /\ \E p \in reads : p[1] = get_width(before) - 1
    /\ \E p \in reads : p[2] = get_height(before) - 1

====
